---------------------------- MODULE Spec2Model ----------------------------
(***************************************************************************)
(* UMC HB4 (8881F) northbridge: PCI configuration registers and the        *)
(* shadow-RAM / SMRAM / L2-cache side effects of writing them              *)
(* (src/src/chipset/umc_hb4.c).                                            *)
(*                                                                         *)
(* Numbers are decimal; the hexadecimal value of the source is given in    *)
(* the comment next to each.                                               *)
(***************************************************************************)
EXTENDS Integers, Sequences, FiniteSets, TLC

VARIABLES
    pci_conf,               \* dev->pci_conf[128]
    mem_state,              \* memory subsystem: access state of each 16KB block C0000-FFFFF
    smram,                  \* SMRAM subsystem: the mapping of dev->smram
    smram_ex,               \* SMRAM subsystem: alias routing mode of alias 0 and alias 1
    cpu_cache_ext_enabled,  \* the CPU's "L2 cache enabled" flag
    calls,                  \* the external calls made by the last operation, in order
    last,                   \* the last operation: which, its arguments, its result
    nops                    \* number of operations since construction

vars == <<pci_conf, mem_state, smram, smram_ex, cpu_cache_ext_enabled, calls, last, nops>>

-----------------------------------------------------------------------------
(* Bounds of the model.                                                    *)

MaxOps == 2

-----------------------------------------------------------------------------
(* Bytes and bit operations of C on uint8_t.                               *)

Byte == 0..255

Bit(x, i) == (x \div (2 ^ i)) % 2

AND8(x, y) ==
    Bit(x, 0) * Bit(y, 0)       + 2 * Bit(x, 1) * Bit(y, 1)
  + 4 * Bit(x, 2) * Bit(y, 2)   + 8 * Bit(x, 3) * Bit(y, 3)
  + 16 * Bit(x, 4) * Bit(y, 4)  + 32 * Bit(x, 5) * Bit(y, 5)
  + 64 * Bit(x, 6) * Bit(y, 6)  + 128 * Bit(x, 7) * Bit(y, 7)

NOT8(x) == 255 - x

OR8(x, y) == x + y - AND8(x, y)

-----------------------------------------------------------------------------
(* The device structure and the collaborators' state it drives.            *)

ConfSize == 128                 \* uint8_t pci_conf[128]

Regs == 0..(ConfSize - 1)

\* Blocks of the memory subsystem's access-state table that the chipset can
\* touch: block b is [0xC0000 + b*0x4000, 0xC0000 + (b+1)*0x4000), up to 0xFFFFF.
Blocks == 0..15

BlockBase(b) == 786432 + b * 16384      \* 0xC0000 + b * 0x4000

\* The access state of a block the chipset has not set since power-up.
MEM_UNSET == [r |-> "UNSET", w |-> "UNSET"]

\* One machine state, as a record: the operations below are functions on it.
Machine(conf, mem, sm, ex, cache, cs) ==
    [pci_conf |-> conf, mem_state |-> mem, smram |-> sm, smram_ex |-> ex,
     cpu_cache_ext_enabled |-> cache, calls |-> cs]

Cur == Machine(pci_conf, mem_state, smram, smram_ex, cpu_cache_ext_enabled, <<>>)

-----------------------------------------------------------------------------
(* Collaborators (memory, SMRAM and CPU subsystems).                       *)

\* mem_set_mem_state_both(base, size, state): every block inside
\* [base, base+size) takes the read and write mode of `state`.
mem_set_mem_state_both(m, base, size, r, w) ==
    [m EXCEPT
       !.mem_state = [b \in Blocks |->
                        IF base <= BlockBase(b) /\ BlockBase(b) < base + size
                        THEN [r |-> r, w |-> w]
                        ELSE @[b]],
       !.calls = Append(@, [fn |-> "mem_set_mem_state_both", base |-> base,
                            size |-> size, r |-> r, w |-> w])]

flushmmucache_nopc(m) ==
    [m EXCEPT !.calls = Append(@, [fn |-> "flushmmucache_nopc"])]

\* smram_disable_all(): every SMRAM mapping is disabled and the alias routing
\* is cleared.
smram_disable_all(m) ==
    [m EXCEPT
       !.smram = [enabled |-> FALSE, guest_base |-> 0, host_base |-> 0, size |-> 0,
                  flags_normal |-> 0, flags_smm |-> 0],
       !.smram_ex = [a \in 0..1 |-> 0],
       !.calls = Append(@, [fn |-> "smram_disable_all"])]

smram_enable(m, host_base, ram_base, size, flags_normal, flags_smm) ==
    [m EXCEPT
       !.smram = [enabled |-> TRUE, guest_base |-> host_base, host_base |-> ram_base,
                  size |-> size, flags_normal |-> flags_normal, flags_smm |-> flags_smm],
       !.calls = Append(@, [fn |-> "smram_enable", guest_base |-> host_base,
                            host_base |-> ram_base, size |-> size,
                            flags_normal |-> flags_normal, flags_smm |-> flags_smm])]

mem_set_mem_state_smram_ex(m, smm, base, size, state) ==
    [m EXCEPT
       !.smram_ex = [@ EXCEPT ![smm] = state],
       !.calls = Append(@, [fn |-> "mem_set_mem_state_smram_ex", alias |-> smm,
                            base |-> base, size |-> size, mode |-> state])]

cpu_update_waitstates(m) ==
    [m EXCEPT !.calls = Append(@, [fn |-> "cpu_update_waitstates"])]

-----------------------------------------------------------------------------
(* hb4_shadow                                                              *)

\* (pci_conf[0x55] & 0x40) ? MEM_WRITE_EXTANY : MEM_WRITE_INTERNAL
ShadowWrite(m) == IF Bit(m.pci_conf[85], 6) = 1 THEN "EXTANY" ELSE "INTERNAL"

\* Mutant: the loop tests the enable bit one position too low.
ShadowWindow_WrongBit(m, i) ==
    IF Bit(m.pci_conf[84] \div (2 ^ i), 1) = 1
    THEN mem_set_mem_state_both(m, 819200 + i * 16384, 32768,
                                "INTERNAL", ShadowWrite(m))
    ELSE mem_set_mem_state_both(m, 819200 + i * 16384, 32768, "EXTANY", "EXTANY")

\* Body of the loop "for (int i = 0; i < 5; i++)" for one i.
ShadowWindow(m, i) ==
    IF Bit(m.pci_conf[84] \div (2 ^ i), 2) = 1              \* (pci_conf[0x54] >> i) & 4
    THEN mem_set_mem_state_both(m, 819200 + i * 16384, 32768,   \* 0xc8000 + (i << 14), 0x8000
                                "INTERNAL", ShadowWrite(m))
    ELSE mem_set_mem_state_both(m, 819200 + i * 16384, 32768, "EXTANY", "EXTANY")

RECURSIVE ShadowLoop(_, _)
ShadowLoop(m, i) ==
    IF i < 5 THEN ShadowLoop(ShadowWindow(m, i), i + 1) ELSE m

\* Mutant: the 0xc0000 window is only set when its standing state differs.
ShadowC0000_SkipUnchanged(m) ==
    LET want == IF Bit(m.pci_conf[84], 1) = 1
                THEN [r |-> "INTERNAL", w |-> ShadowWrite(m)]
                ELSE [r |-> "EXTANY", w |-> "EXTANY"]
    IN  IF m.mem_state[0] = want /\ m.mem_state[1] = want
        THEN m
        ELSE mem_set_mem_state_both(m, 786432, 32768, want.r, want.w)

\* The window at 0xc0000, length 0x8000.
ShadowC0000(m) ==
    IF Bit(m.pci_conf[84], 1) = 1                           \* pci_conf[0x54] & 2
    THEN mem_set_mem_state_both(m, 786432, 32768, "INTERNAL", ShadowWrite(m))
    ELSE mem_set_mem_state_both(m, 786432, 32768, "EXTANY", "EXTANY")

\* Mutant: the read mode of the 0xe0000 window follows bit 6 instead of bit 7.
ShadowE0000_WrongBit(m) ==
    mem_set_mem_state_both(m, 917504, 131072,
        IF Bit(m.pci_conf[85], 6) = 1 THEN "INTERNAL" ELSE "EXTANY",
        ShadowWrite(m))

\* The window at 0xe0000, length 0x20000.
ShadowE0000(m) ==
    mem_set_mem_state_both(m, 917504, 131072,
        IF Bit(m.pci_conf[85], 7) = 1 THEN "INTERNAL" ELSE "EXTANY",
        ShadowWrite(m))

\* Mutant: with bit 0 of 0x54 clear the C0000-DFFFF range is handed back to
\* the bus.
hb4_shadow_DisableOnClear(m) ==
    LET m1 == ShadowE0000(m)
        m2 == IF Bit(m1.pci_conf[84], 0) = 1
              THEN ShadowLoop(ShadowC0000(m1), 0)
              ELSE mem_set_mem_state_both(m1, 786432, 131072, "EXTANY", "EXTANY")
    IN  flushmmucache_nopc(m2)

\* Mutant: the flush is requested only when the windows were recomputed.
hb4_shadow_FlushInsideIf(m) ==
    LET m1 == ShadowE0000(m)
    IN  IF Bit(m1.pci_conf[84], 0) = 1
        THEN flushmmucache_nopc(ShadowLoop(ShadowC0000(m1), 0))
        ELSE m1

hb4_shadow(m) ==
    LET m1 == ShadowE0000(m)
        m2 == IF Bit(m1.pci_conf[84], 0) = 1                \* pci_conf[0x54] & 1
              THEN ShadowLoop(ShadowC0000(m1), 0)
              ELSE m1
    IN  flushmmucache_nopc(m2)

-----------------------------------------------------------------------------
(* hb4_smram                                                               *)

\* Mutant: the visibility outside SMM is taken from bit 5 (pci_conf[0x60] & 0x20).
hb4_smram_WrongBit(m) ==
    LET m1 == smram_disable_all(m)
        m2 == smram_enable(m1, 655360, 655360, 131072,
                           AND8(m1.pci_conf[96], 32), 1)
        m3 == IF AND8(m2.pci_conf[96], 32) # 0
              THEN LET m4 == IF AND8(m2.pci_conf[96], 1) # 0
                             THEN mem_set_mem_state_smram_ex(m2, 0, 655360, 131072, 2)
                             ELSE m2
                   IN  mem_set_mem_state_smram_ex(m4, 1, 655360, 131072, 2)
              ELSE m2
    IN  m3

\* Mutant: alias 0 is routed whenever bit 5 is set, whatever bit 0 is.
hb4_smram_Alias0Always(m) ==
    LET m1 == smram_disable_all(m)
        m2 == smram_enable(m1, 655360, 655360, 131072,
                           AND8(m1.pci_conf[96], 1), 1)
        m3 == IF AND8(m2.pci_conf[96], 32) # 0
              THEN mem_set_mem_state_smram_ex(
                       mem_set_mem_state_smram_ex(m2, 0, 655360, 131072, 2),
                       1, 655360, 131072, 2)
              ELSE m2
    IN  m3

\* Mutant: the previous mappings are not disabled before the new ones are set.
hb4_smram_NoDisable(m) ==
    LET m2 == smram_enable(m, 655360, 655360, 131072,
                           AND8(m.pci_conf[96], 1), 1)
        m3 == IF AND8(m2.pci_conf[96], 32) # 0
              THEN LET m4 == IF AND8(m2.pci_conf[96], 1) # 0
                             THEN mem_set_mem_state_smram_ex(m2, 0, 655360, 131072, 2)
                             ELSE m2
                   IN  mem_set_mem_state_smram_ex(m4, 1, 655360, 131072, 2)
              ELSE m2
    IN  m3

hb4_smram(m) ==
    LET m1 == smram_disable_all(m)
        m2 == smram_enable(m1, 655360, 655360, 131072,      \* 0xa0000, 0xa0000, 0x20000
                           AND8(m1.pci_conf[96], 1), 1)
        m3 == IF AND8(m2.pci_conf[96], 32) # 0              \* pci_conf[0x60] & 0x20
              THEN LET m4 == IF AND8(m2.pci_conf[96], 1) # 0
                             THEN mem_set_mem_state_smram_ex(m2, 0, 655360, 131072, 2)
                             ELSE m2
                   IN  mem_set_mem_state_smram_ex(m4, 1, 655360, 131072, 2)
              ELSE m2
    IN  m3

-----------------------------------------------------------------------------
(* hb4_write                                                               *)

\* Mutant: a verbatim store loses bit 7 of the value.
StoredValue_Truncated(conf, addr, val) ==
    CASE addr = 7  -> AND8(conf[addr], NOT8(AND8(val, 249)))
      [] addr = 80 -> OR8(AND8(val, 248), 4)
      [] OTHER     -> AND8(val, 127)

\* Mutant: the write to 0x07 clears every bit written as one (mask 0xff).
StoredValue_ClearAll(conf, addr, val) ==
    CASE addr = 7  -> AND8(conf[addr], NOT8(AND8(val, 255)))
      [] addr = 80 -> OR8(AND8(val, 248), 4)
      [] OTHER     -> val

\* Mutant: the write to 0x50 does not hardcode the cache size.
StoredValue_NoHardcode(conf, addr, val) ==
    CASE addr = 7  -> AND8(conf[addr], NOT8(AND8(val, 249)))
      [] addr = 80 -> val
      [] OTHER     -> val

\* The value the switch stores at pci_conf[addr]; only called for an addr
\* that has a case.
StoredValue(conf, addr, val) ==
    CASE addr = 7  -> AND8(conf[addr], NOT8(AND8(val, 249)))    \* &= ~(val & 0xf9)
      [] addr = 80 -> OR8(AND8(val, 248), 4)                    \* (val & 0xf8) | 4
      [] OTHER     -> val

\* Mutant: the switch has one more verbatim case, 0x62.
CaseAddrs_Extra == {4, 5, 7, 12, 13, 80, 81, 82, 83, 84, 85} \cup (86..95) \cup {96, 97, 98}

\* The offsets the switch has a case for.
CaseAddrs == {4, 5, 7, 12, 13, 80, 81, 82, 83, 84, 85} \cup (86..95) \cup {96, 97}

\* Mutant: the L2 cache flag is set from the whole value (!!val).
hb4_write_fn_AnyBit(m, addr, val) ==
    IF addr \notin CaseAddrs
    THEN m
    ELSE LET m1 == [m EXCEPT !.pci_conf[addr] = StoredValue(m.pci_conf, addr, val)]
         IN  CASE addr = 80 ->
                    cpu_update_waitstates(
                        [m1 EXCEPT !.cpu_cache_ext_enabled = (val # 0)])
               [] addr \in {84, 85} -> hb4_shadow(m1)
               [] addr = 96 -> hb4_smram(m1)
               [] OTHER -> m1

hb4_write_fn(m, addr, val) ==
    IF addr \notin CaseAddrs
    THEN m
    ELSE LET m1 == [m EXCEPT !.pci_conf[addr] = StoredValue(m.pci_conf, addr, val)]
         IN  CASE addr = 80 ->
                    cpu_update_waitstates(
                        [m1 EXCEPT !.cpu_cache_ext_enabled = (AND8(val, 128) # 0)])
               [] addr \in {84, 85} -> hb4_shadow(m1)
               [] addr = 96 -> hb4_smram(m1)
               [] OTHER -> m1

-----------------------------------------------------------------------------
(* hb4_read                                                                *)

\* The values "return dev->pci_conf[addr]" can produce.  For addr >= 128 the
\* access is outside the array: the smram pointer that follows it in hb4_t,
\* then memory outside the allocation; any byte may come back.
hb4_read_fn(conf, addr) ==
    IF addr \in Regs THEN {conf[addr]} ELSE Byte

\* The indices of pci_conf an operation accesses: hb4_read indexes the array
\* with the offset it is given; hb4_write only inside a case of its switch.
AccessedIndex(op) ==
    CASE op.op = "read" -> {op.addr}
      [] op.op = "write" /\ op.addr \in CaseAddrs -> {op.addr}
      [] OTHER -> {}

-----------------------------------------------------------------------------
(* hb4_reset and hb4_init                                                  *)

\* Mutant: reset leaves 0x5f alone.
ResetValues_Missing ==
    (0 :> 96) @@ (1 :> 16) @@ (2 :> 129) @@ (3 :> 136) @@
    (7 :> 2) @@ (8 :> 4) @@
    (9 :> 0) @@ (10 :> 0) @@ (11 :> 6) @@
    (81 :> 1) @@ (82 :> 1) @@ (90 :> 4) @@
    (92 :> 192) @@ (93 :> 32)

ResetValues ==
    (0 :> 96) @@ (1 :> 16) @@ (2 :> 129) @@ (3 :> 136) @@   \* 0x60 0x10 0x81 0x88
    (7 :> 2) @@ (8 :> 4) @@
    (9 :> 0) @@ (10 :> 0) @@ (11 :> 6) @@
    (81 :> 1) @@ (82 :> 1) @@ (90 :> 4) @@                  \* 0x51 0x52 0x5a
    (92 :> 192) @@ (93 :> 32) @@ (95 :> 255)                \* 0x5c 0x5d 0x5f

\* Mutant: reset stores 0x20 at 0x60 directly instead of calling hb4_write.
hb4_reset_fn_DirectStore(m) ==
    LET m1 == [m EXCEPT !.pci_conf = [a \in Regs |->
                            IF a \in DOMAIN ResetValues THEN ResetValues[a]
                            ELSE IF a = 96 THEN 32 ELSE @[a]]]
    IN  hb4_shadow(m1)

hb4_reset_fn(m) ==
    LET m1 == [m EXCEPT !.pci_conf = [a \in Regs |->
                            IF a \in DOMAIN ResetValues THEN ResetValues[a] ELSE @[a]]]
        m2 == hb4_shadow(m1)
    IN  hb4_write_fn(m2, 96, 32)                            \* hb4_write(0, 0x60, 0x20, dev)

\* The machine right after hb4_init: the structure zeroed, the card, port 92
\* and the SMRAM handle registered, then hb4_reset.
hb4_init_fn(cache) ==
    LET m0 == Machine([a \in Regs |-> 0],
                      [b \in Blocks |-> MEM_UNSET],
                      [enabled |-> FALSE, guest_base |-> 0, host_base |-> 0, size |-> 0,
                       flags_normal |-> 0, flags_smm |-> 0],
                      [a \in 0..1 |-> 0],
                      cache,
                      <<[fn |-> "pci_add_card"], [fn |-> "device_add"], [fn |-> "smram_add"]>>)
    IN  hb4_reset_fn(m0)

-----------------------------------------------------------------------------
(* Inputs of the model.                                                    *)

\* Offsets a write is tried with: every offset of the array, and two past
\* its end (a configuration access carries an offset in 0..255).
WriteAddrs == Regs \cup {128, 255}

\* Offsets a read is tried with: every offset the switch of hb4_write has a
\* case for, the two ends of every range it has none for, and two past the
\* end of the array.
ReadAddrs == {4, 5, 7, 12, 13} \cup (80..97) \cup {0, 3, 6, 8, 11, 14, 79, 98, 127, 128, 255}

\* Values written to an offset.
Vals(addr) ==
    CASE addr = 7  -> {2, 249, 255}
      [] addr = 80 -> {0, 7, 128, 251, 255}
      [] addr = 84 -> {0, 1, 2, 3, 5, 9, 129, 131, 254, 255}
      [] addr = 85 -> {0, 64, 128, 192, 255}
      [] addr = 96 -> {0, 1, 32, 33, 255}
      [] addr \in {4, 5, 12, 13} \cup (81..97) -> {90, 165}
      [] OTHER     -> {165}

\* Bytes an out-of-bounds read is observed to return.
OutVals == {0, 255}

-----------------------------------------------------------------------------
(* The state machine.                                                      *)

Set(m) ==
    /\ pci_conf' = m.pci_conf
    /\ mem_state' = m.mem_state
    /\ smram' = m.smram
    /\ smram_ex' = m.smram_ex
    /\ cpu_cache_ext_enabled' = m.cpu_cache_ext_enabled
    /\ calls' = m.calls

Start(m) ==
    /\ pci_conf = m.pci_conf
    /\ mem_state = m.mem_state
    /\ smram = m.smram
    /\ smram_ex = m.smram_ex
    /\ cpu_cache_ext_enabled = m.cpu_cache_ext_enabled
    /\ calls = m.calls

Op(op, addr, val, ret) == [op |-> op, addr |-> addr, val |-> val, ret |-> ret]

Init ==
    \E cache \in BOOLEAN :
        /\ Start(hb4_init_fn(cache))
        /\ last = Op("init", 0, 0, 0)
        /\ nops = 0

hb4_write(addr, val) ==
    /\ Set(hb4_write_fn(Cur, addr, val))
    /\ last' = Op("write", addr, val, 0)
    /\ nops' = nops + 1

hb4_read(addr) ==
    \E ret \in hb4_read_fn(pci_conf, addr) :
        /\ addr \notin Regs => ret \in OutVals
        /\ Set(Cur)
        /\ last' = Op("read", addr, 0, ret)
        /\ nops' = nops + 1

hb4_reset ==
    /\ Set(hb4_reset_fn(Cur))
    /\ last' = Op("reset", 0, 0, 0)
    /\ nops' = nops + 1

Write == nops < MaxOps /\ \E addr \in WriteAddrs : \E val \in Vals(addr) : hb4_write(addr, val)

Read == nops < MaxOps /\ \E addr \in ReadAddrs : hb4_read(addr)

Reset == nops < MaxOps /\ hb4_reset

Next == Write \/ Read \/ Reset

Spec == Init /\ [][Next]_vars

-----------------------------------------------------------------------------
(* hb4_write as a function of (stored value, offset, written value): one   *)
(* write, applied to the machine right after hb4_init, for every offset    *)
(* 0..255 and every byte; for offset 0x07 also for every stored byte.      *)

InitPolicy ==
    \E old \in Byte :
        /\ Start([hb4_init_fn(FALSE) EXCEPT !.pci_conf[7] = old])
        /\ last = Op("init", 0, 0, 0)
        /\ nops = 0

WriteStatus == nops = 0 /\ \E val \in Byte : hb4_write(7, val)

WriteAny ==
    /\ nops = 0
    /\ pci_conf[7] = ResetValues[7]
    /\ \E addr \in Byte \ {7} : \E val \in Byte : hb4_write(addr, val)

NextPolicy == WriteStatus \/ WriteAny

SpecPolicy == InitPolicy /\ [][NextPolicy]_vars

-----------------------------------------------------------------------------
(* The Shadow-Region recomputation for every pair (reg 0x54, reg 0x55): the *)
(* device after hb4_init and write(0x54, v54), then one write(0x55, v55).   *)

InitShadow ==
    \E v54 \in Byte :
        /\ Start(hb4_write_fn([hb4_init_fn(FALSE) EXCEPT !.calls = <<>>], 84, v54))
        /\ last = Op("write", 84, v54, 0)
        /\ nops = 1

WriteShadow == nops = 1 /\ \E v55 \in Byte : hb4_write(85, v55)

NextShadow == WriteShadow

SpecShadow == InitShadow /\ [][NextShadow]_vars

-----------------------------------------------------------------------------
(* Properties.                                                             *)

LastWrite(addrs) == last.op = "write" /\ last.addr \in addrs

Hex(hi, lo) == 16 * hi + lo

\* The offsets hb4_write stores verbatim.
Verbatim ==
    {Hex(0, 4), Hex(0, 5), Hex(0, 12), Hex(0, 13)} \cup (Hex(5, 1)..Hex(5, 15))
        \cup {Hex(6, 0), Hex(6, 1)}

\* C1: for every store-verbatim offset and every byte v, write(offset, v)
\* followed immediately by read(offset) returns exactly v.
C1_VerbatimReadBack ==
    [][(LastWrite(Verbatim) /\ last'.op = "read" /\ last'.addr = last.addr)
          => last'.ret = last.val]_vars

C1_Witness ==
    /\ last.op = "read" /\ last.addr = Hex(5, 4) /\ last.ret = Hex(8, 3)
    /\ nops = 2

\* C2: register 0x07 is write-one-to-clear: after write(0x07, v) it reads
\* old_value AND NOT (v AND 0xF9); no bit is ever set by the write and bits
\* 1 and 2 never change.
C2_WriteOneToClear ==
    [][(last'.op = "write" /\ last'.addr = 7) =>
          /\ hb4_read_fn(pci_conf', 7)
                = {AND8(pci_conf[7], NOT8(AND8(last'.val, Hex(15, 9))))}
          /\ \A i \in 0..7 :
                /\ Bit(pci_conf'[7], i) <= Bit(pci_conf[7], i)
                /\ (Bit(pci_conf'[7], i) < Bit(pci_conf[7], i)) => Bit(last'.val, i) = 1
          /\ Bit(pci_conf'[7], 1) = Bit(pci_conf[7], 1)
          /\ Bit(pci_conf'[7], 2) = Bit(pci_conf[7], 2)]_vars

C2_Witness ==
    /\ LastWrite({7}) /\ last.val = 255
    /\ pci_conf[7] = 6

\* C3: after write(0x50, v), read(0x50) is (v AND 0xF8) OR 0x04: the low
\* three bits read back as binary 100, the high five as written.
C3_CacheSizeHardcoded ==
    LastWrite({Hex(5, 0)}) =>
        /\ hb4_read_fn(pci_conf, Hex(5, 0)) = {OR8(AND8(last.val, Hex(15, 8)), 4)}
        /\ pci_conf[Hex(5, 0)] % 8 = 4
        /\ pci_conf[Hex(5, 0)] \div 8 = last.val \div 8

C3_Witness ==
    /\ LastWrite({Hex(5, 0)}) /\ last.val = 251
    /\ pci_conf[Hex(5, 0)] = 252

\* The offsets hb4_write has no policy for.
NoPolicy ==
    (0..3) \cup {6} \cup (8..11) \cup (Hex(0, 14)..Hex(4, 15)) \cup (Hex(6, 2)..Hex(7, 15))

\* C4: a write to an offset without a policy is a no-op: every register
\* keeps its value and no external call is made.
C4_NoPolicyNoOp ==
    [][(last'.op = "write" /\ last'.addr \in NoPolicy) =>
          /\ pci_conf' = pci_conf
          /\ mem_state' = mem_state
          /\ smram' = smram /\ smram_ex' = smram_ex
          /\ cpu_cache_ext_enabled' = cpu_cache_ext_enabled
          /\ calls' = <<>>]_vars

C4_Witness ==
    /\ LastWrite({Hex(6, 2)}) /\ last.val = 165 /\ nops = 2
    /\ pci_conf[Hex(5, 4)] = 3

\* C5: after reset() from any state, the identity and default registers read
\* their fixed values.
C5_ResetDefaults ==
    last.op = "reset" =>
        /\ hb4_read_fn(pci_conf, Hex(0, 0)) = {Hex(6, 0)}
        /\ hb4_read_fn(pci_conf, Hex(0, 1)) = {Hex(1, 0)}
        /\ hb4_read_fn(pci_conf, Hex(0, 2)) = {Hex(8, 1)}
        /\ hb4_read_fn(pci_conf, Hex(0, 3)) = {Hex(8, 8)}
        /\ hb4_read_fn(pci_conf, Hex(0, 7)) = {Hex(0, 2)}
        /\ hb4_read_fn(pci_conf, Hex(0, 8)) = {Hex(0, 4)}
        /\ hb4_read_fn(pci_conf, Hex(0, 11)) = {Hex(0, 6)}
        /\ hb4_read_fn(pci_conf, Hex(5, 1)) = {Hex(0, 1)}
        /\ hb4_read_fn(pci_conf, Hex(5, 2)) = {Hex(0, 1)}
        /\ hb4_read_fn(pci_conf, Hex(5, 10)) = {Hex(0, 4)}
        /\ hb4_read_fn(pci_conf, Hex(5, 12)) = {Hex(12, 0)}
        /\ hb4_read_fn(pci_conf, Hex(5, 13)) = {Hex(2, 0)}
        /\ hb4_read_fn(pci_conf, Hex(5, 15)) = {Hex(15, 15)}

\* A reset that follows a write to a register reset does not touch.
C5_Witness ==
    /\ last.op = "reset" /\ nops = 2
    /\ pci_conf[Hex(5, 4)] = 131

\* C6 (as claimed): right after reset() all 128 registers hold what they hold
\* right after init(), whatever was written before.
C6_ResetRestoresAll ==
    last.op = "reset" => pci_conf = hb4_init_fn(FALSE).pci_conf

\* A set_region_permissions call, as the calls log records it.
Perm(base, size, r, w) ==
    [fn |-> "mem_set_mem_state_both", base |-> base, size |-> size, r |-> r, w |-> w]

\* The blocks of the memory subsystem inside [base, base + size).
BlocksOf(base, size) == {b \in Blocks : base <= BlockBase(b) /\ BlockBase(b) < base + size}

\* 0xE0000, 0x20000, 0xC0000, 0xC8000, 0x8000, 0x4000
AddrE0000 == Hex(14, 0) * 4096
Len20000 == Hex(2, 0) * 4096
AddrC0000 == Hex(12, 0) * 4096
AddrC8000 == Hex(12, 8) * 4096
Len8000 == 8 * 4096
Len4000 == 4 * 4096

\* Write-mode rule of register 0x55 bit 6.
WriteModeOf(reg55) == IF Bit(reg55, 6) = 1 THEN "EXTANY" ELSE "INTERNAL"

\* C7: after every operation the permission standing on [0xE0000, +0x20000)
\* agrees with register 0x55 (read Internal iff bit 7, write ExternalAny iff
\* bit 6), and every write to 0x54 or 0x55 applies it, whatever 0x54 holds.
C7_E0000FollowsReg55 ==
    LET want == [r |-> IF Bit(pci_conf[Hex(5, 5)], 7) = 1 THEN "INTERNAL" ELSE "EXTANY",
                 w |-> WriteModeOf(pci_conf[Hex(5, 5)])]
    IN  /\ \A b \in BlocksOf(AddrE0000, Len20000) : mem_state[b] = want
        /\ LastWrite({Hex(5, 4), Hex(5, 5)}) =>
              /\ Len(calls) >= 1
              /\ calls[1] = Perm(AddrE0000, Len20000, want.r, want.w)

C7_Witness ==
    /\ LastWrite({Hex(5, 5)}) /\ last.val = Hex(12, 0)
    /\ Bit(pci_conf[Hex(5, 4)], 0) = 0
    /\ mem_state[8] = [r |-> "INTERNAL", w |-> "EXTANY"]
    /\ mem_state[15] = [r |-> "INTERNAL", w |-> "EXTANY"]

\* The call the claim expects for a window whose enable bit of register
\* 0x54 is `bit`.
WindowCall(base, bit) ==
    IF Bit(pci_conf[Hex(5, 4)], bit) = 1
    THEN Perm(base, Len8000, "INTERNAL", WriteModeOf(pci_conf[Hex(5, 5)]))
    ELSE Perm(base, Len8000, "EXTANY", "EXTANY")

\* The permission calls among the calls of the last operation.
PermCalls == SelectSeq(calls, LAMBDA c : c.fn = "mem_set_mem_state_both")

\* C8: a write to 0x54 or 0x55 that leaves bit 0 of 0x54 set issues one
\* permission call for [0xC0000, +0x8000) and one for each window
\* [0xC8000 + i*0x4000, +0x8000), i in 0..4, carrying (Internal, write per
\* 0x55 bit 6) when the window's enable bit is set and (ExternalAny,
\* ExternalAny) when it is clear.
C8_WindowCalls ==
    (LastWrite({Hex(5, 4), Hex(5, 5)}) /\ Bit(pci_conf[Hex(5, 4)], 0) = 1) =>
        /\ Len(PermCalls) = 7
        /\ PermCalls[2] = WindowCall(AddrC0000, 1)
        /\ \A i \in 0..4 : PermCalls[3 + i] = WindowCall(AddrC8000 + i * Len4000, i + 2)

\* write(0x54, 0x03) then write(0x55, 0x40): 0xC0000 gets (Internal, ExternalAny).
C8_Witness ==
    /\ LastWrite({Hex(5, 5)}) /\ last.val = Hex(4, 0)
    /\ pci_conf[Hex(5, 4)] = 3
    /\ PermCalls[2] = Perm(AddrC0000, Len8000, "INTERNAL", "EXTANY")

\* C9 (as claimed): the windows that receive a permission call within one
\* recomputation are pairwise disjoint, so no block is set twice by it.
C9_WindowsDisjoint ==
    \A i, j \in DOMAIN PermCalls :
        i < j => BlocksOf(PermCalls[i].base, PermCalls[i].size)
                   \cap BlocksOf(PermCalls[j].base, PermCalls[j].size) = {}

\* The blocks the documentation of register 0x54 gives each read-enable bit:
\* bit 1 C0000-C7FFF, bit 2 C8000-CBFFF, ..., bit 7 DC000-DFFFF.
DocBlocks(bit) ==
    IF bit = 1 THEN BlocksOf(AddrC0000, Len8000)
    ELSE BlocksOf(AddrC8000 + (bit - 2) * Len4000, Len4000)

\* C10 (as claimed): with bit 0 of 0x54 set, after a write to 0x54 or 0x55
\* the read-mode standing on each documented block is Internal iff the
\* block's read-enable bit of 0x54 is set.
C10_ReadEnableBits ==
    (LastWrite({Hex(5, 4), Hex(5, 5)}) /\ Bit(pci_conf[Hex(5, 4)], 0) = 1) =>
        \A bit \in 1..7 : \A b \in DocBlocks(bit) :
            (mem_state[b].r = "INTERNAL") <=> (Bit(pci_conf[Hex(5, 4)], bit) = 1)

\* The flush request, as the calls log records it.
Flush == [fn |-> "flushmmucache_nopc"]

\* C11: a write to 0x54 or 0x55 that leaves bit 0 of 0x54 clear changes no
\* permission in C0000-DFFFF: it only sets the 0xE0000 window and requests a
\* flush, so permissions enabled earlier stay standing.
C11_DisabledLeavesWindows ==
    [][(last'.op = "write" /\ last'.addr \in {Hex(5, 4), Hex(5, 5)}
            /\ Bit(pci_conf'[Hex(5, 4)], 0) = 0) =>
          /\ \A b \in BlocksOf(AddrC0000, Len20000) : mem_state'[b] = mem_state[b]
          /\ Len(calls') = 2
          /\ calls'[1].fn = "mem_set_mem_state_both" /\ calls'[1].base = AddrE0000
          /\ calls'[2] = Flush]_vars

\* Registers 0x54 and 0x55 are back at their values after init, yet
\* C0000-C7FFF is still Internal (after init it was not set at all).
C11_Witness ==
    /\ LastWrite({Hex(5, 4)}) /\ last.val = 0 /\ nops = 2
    /\ pci_conf[Hex(5, 4)] = 0 /\ pci_conf[Hex(5, 5)] = 0
    /\ mem_state[0] = [r |-> "INTERNAL", w |-> "INTERNAL"]
    /\ mem_state[1] = [r |-> "INTERNAL", w |-> "INTERNAL"]

\* C12: the recomputation is idempotent: in the state a recomputation left,
\* invoking it again with registers 0x54/0x55 unchanged issues the same
\* permission calls, in the same order with the same modes, and leaves the
\* memory permissions as they are.
C12_ShadowIdempotent ==
    LastWrite({Hex(5, 4), Hex(5, 5)}) =>
        LET again == hb4_shadow(Cur)
        IN  /\ again.calls = calls
            /\ again.mem_state = mem_state
            /\ again.pci_conf = pci_conf

C12_Witness ==
    /\ LastWrite({Hex(5, 5)}) /\ last.val = Hex(4, 0)
    /\ pci_conf[Hex(5, 4)] = Hex(10, 7)
    /\ Len(calls) = 8
    /\ hb4_shadow(Cur).calls = calls

\* C13: every recomputation requests exactly one flush, after all of its
\* permission calls and within the operation that triggered it (a write to
\* 0x54 or 0x55, or reset), also when bit 0 of 0x54 is clear.
C13_OneFlushLast ==
    LET flushes == {k \in DOMAIN calls : calls[k] = Flush}
        perms == {k \in DOMAIN calls : calls[k].fn = "mem_set_mem_state_both"}
    IN  /\ LastWrite({Hex(5, 4), Hex(5, 5)}) =>
              /\ flushes = {Len(calls)}
              /\ perms = 1..(Len(calls) - 1)
              /\ perms # {}
        /\ last.op = "reset" =>
              /\ Cardinality(flushes) = 1
              /\ perms # {}
              /\ \A f \in flushes : perms = 1..(f - 1)

C13_Witness ==
    /\ LastWrite({Hex(5, 5)}) /\ last.val = Hex(12, 0)
    /\ Bit(pci_conf[Hex(5, 4)], 0) = 0
    /\ calls = <<Perm(AddrE0000, Len20000, "INTERNAL", "EXTANY"), Flush>>

\* 0xA0000
AddrA0000 == Hex(10, 0) * 4096

\* The SMRAM subsystem's calls among the calls of the last operation.
SmramCalls ==
    SelectSeq(calls, LAMBDA c : c.fn \in {"smram_disable_all", "smram_enable",
                                           "mem_set_mem_state_smram_ex"})

\* The alias-routing calls among the calls of the last operation.
AliasCalls == SelectSeq(calls, LAMBDA c : c.fn = "mem_set_mem_state_smram_ex")

\* An alias-routing call with mode 0x02 over the SMRAM region.
Alias(index) ==
    [fn |-> "mem_set_mem_state_smram_ex", alias |-> index,
     base |-> AddrA0000, size |-> Len20000, mode |-> 2]

\* C14: after every operation SMRAM is enabled at guest base 0xA0000, host
\* base 0xA0000, length 0x20000, visible in SMM, and visible outside SMM iff
\* bit 0 of register 0x60 is set.
C14_SmramRegion ==
    /\ smram = [enabled |-> TRUE, guest_base |-> AddrA0000, host_base |-> AddrA0000,
                size |-> Len20000, flags_normal |-> Bit(pci_conf[Hex(6, 0)], 0),
                flags_smm |-> 1]
    /\ \A k \in DOMAIN calls :
          calls[k].fn = "smram_enable" =>
              calls[k] = [fn |-> "smram_enable", guest_base |-> AddrA0000,
                          host_base |-> AddrA0000, size |-> Len20000,
                          flags_normal |-> Bit(pci_conf[Hex(6, 0)], 0), flags_smm |-> 1]

C14_Witness ==
    /\ LastWrite({Hex(6, 0)}) /\ last.val = 1
    /\ smram.enabled /\ smram.flags_normal = 1 /\ smram.flags_smm = 1

\* C15: write(0x60, v) routes alias 1 (mode 0x02, base 0xA0000, length
\* 0x20000) iff bit 5 of v is set, alias 0 iff bits 5 and 0 are both set, and
\* makes no alias-routing call when bit 5 is clear.
C15_AliasRouting ==
    LastWrite({Hex(6, 0)}) =>
        LET b5 == Bit(last.val, 5) = 1
            b0 == Bit(last.val, 0) = 1
        IN  /\ (\E k \in DOMAIN AliasCalls : AliasCalls[k] = Alias(1)) <=> b5
            /\ (\E k \in DOMAIN AliasCalls : AliasCalls[k] = Alias(0)) <=> (b5 /\ b0)
            /\ \A k \in DOMAIN AliasCalls : AliasCalls[k] \in {Alias(0), Alias(1)}
            /\ Len(AliasCalls) = (IF b5 THEN 1 ELSE 0) + (IF b5 /\ b0 THEN 1 ELSE 0)

C15_Witness ==
    /\ LastWrite({Hex(6, 0)}) /\ last.val = Hex(2, 1)
    /\ AliasCalls = <<Alias(0), Alias(1)>>

\* C16: every SMRAM recomputation calls disable_all first, then enable once,
\* then the alias routings (alias 0 before alias 1); so the visibility and
\* routing in force are those of the current register 0x60 alone.
C16_SmramOrder ==
    LET reg60 == pci_conf[Hex(6, 0)]
        b5 == Bit(reg60, 5) = 1
        b0 == Bit(reg60, 0) = 1
    IN  /\ (LastWrite({Hex(6, 0)}) \/ last.op = "reset") =>
              /\ Len(SmramCalls) >= 2
              /\ SmramCalls[1].fn = "smram_disable_all"
              /\ SmramCalls[2].fn = "smram_enable"
              /\ \A k \in 3..Len(SmramCalls) :
                    SmramCalls[k].fn = "mem_set_mem_state_smram_ex"
              /\ \A j, k \in 3..Len(SmramCalls) :
                    j < k => SmramCalls[j].alias < SmramCalls[k].alias
        /\ smram_ex[0] = (IF b5 /\ b0 THEN 2 ELSE 0)
        /\ smram_ex[1] = (IF b5 THEN 2 ELSE 0)
        /\ smram.flags_normal = (IF b0 THEN 1 ELSE 0)

\* write(0x60, 0x00) on the state init left (register 0x60 = 0x20, alias 1
\* routed): no alias stays routed.
C16_Witness ==
    /\ LastWrite({Hex(6, 0)}) /\ last.val = 0 /\ nops = 1
    /\ smram_ex[0] = 0 /\ smram_ex[1] = 0
    /\ smram.flags_normal = 0

\* C17: reset() runs the Shadow-Region recomputation once, with the current
\* registers 0x54/0x55, and then write(0x60, 0x20) through hb4_write; after it
\* register 0x60 reads 0x20, SMRAM is enabled at 0xA0000 + 0x20000, visible in
\* SMM and not outside, alias 1 is routed with mode 0x02 and alias 0 is not.
C17_ResetSequence ==
    last.op = "reset" =>
        LET n == Len(calls)
        IN  /\ n >= 5
            /\ SubSeq(calls, 1, n - 3) = hb4_shadow(Cur).calls
            /\ calls[n - 3] = Flush
            /\ calls[n - 2] = [fn |-> "smram_disable_all"]
            /\ calls[n - 1] = [fn |-> "smram_enable", guest_base |-> AddrA0000,
                               host_base |-> AddrA0000, size |-> Len20000,
                               flags_normal |-> 0, flags_smm |-> 1]
            /\ calls[n] = Alias(1)
            /\ hb4_read_fn(pci_conf, Hex(6, 0)) = {Hex(2, 0)}
            /\ smram = [enabled |-> TRUE, guest_base |-> AddrA0000,
                        host_base |-> AddrA0000, size |-> Len20000,
                        flags_normal |-> 0, flags_smm |-> 1]
            /\ smram_ex[0] = 0 /\ smram_ex[1] = 2

\* A reset in a state where the windows are enabled: its recomputation issues
\* all seven permission calls.
C17_Witness ==
    /\ last.op = "reset" /\ nops = 2
    /\ pci_conf[Hex(5, 4)] = 3
    /\ Len(PermCalls) = 7
    /\ Len(calls) = 11

\* C18: write(0x50, v) sets the L2-cache flag to bit 7 of v and requests one
\* wait-state recalculation and nothing else; so once 0x50 has been written
\* the flag equals bit 7 of the stored register 0x50, also after later resets
\* and writes.  (Register 0x50 is nonzero exactly when it has been written:
\* every stored value has bit 2 set and nothing else stores there.)
C18_CacheFlag ==
    /\ LastWrite({Hex(5, 0)}) =>
          /\ cpu_cache_ext_enabled = (Bit(last.val, 7) = 1)
          /\ calls = <<[fn |-> "cpu_update_waitstates"]>>
    /\ pci_conf[Hex(5, 0)] # 0 =>
          cpu_cache_ext_enabled = (Bit(pci_conf[Hex(5, 0)], 7) = 1)

C18_Witness ==
    /\ last.op = "reset" /\ nops = 2
    /\ pci_conf[Hex(5, 0)] = Hex(8, 4)
    /\ cpu_cache_ext_enabled

\* C19: the identity registers never change: 0x00-0x03 read 0x60, 0x10, 0x81,
\* 0x88, 0x08-0x0B read 0x04, 0x00, 0x00, 0x06 and 0x07 reads 0x02 in every
\* reachable state.
C19_IdentityConstant ==
    /\ hb4_read_fn(pci_conf, 0) = {Hex(6, 0)}
    /\ hb4_read_fn(pci_conf, 1) = {Hex(1, 0)}
    /\ hb4_read_fn(pci_conf, 2) = {Hex(8, 1)}
    /\ hb4_read_fn(pci_conf, 3) = {Hex(8, 8)}
    /\ hb4_read_fn(pci_conf, 7) = {2}
    /\ hb4_read_fn(pci_conf, 8) = {4}
    /\ hb4_read_fn(pci_conf, 9) = {0}
    /\ hb4_read_fn(pci_conf, 10) = {0}
    /\ hb4_read_fn(pci_conf, 11) = {6}

\* A write of 0xFF to 0x07 that follows another operation.
C19_Witness ==
    /\ LastWrite({7}) /\ last.val = 255 /\ nops = 2
    /\ pci_conf[7] = 2

\* C20 (as claimed): every access read or write makes to pci_conf uses an
\* index in 0..127, for every offset 0..255 a configuration access can carry.
C20_IndexInBounds ==
    AccessedIndex(last) \subseteq Regs

=============================================================================
